---- MODULE Spec2Model ----
(***************************************************************************)
(* Model of src/server.js: the Monday e-mail -> board item backend.        *)
(*                                                                         *)
(* State: the in-memory tenant registry (boardStore), the dedup ledger     *)
(* (processedUids), the setInterval timers started by startEmailListener,  *)
(* the poll-cycle callbacks in flight, the /oauth/callback handlers in     *)
(* flight, the mailbox (messages and their \Seen flags) and the external   *)
(* store (board columns, create_item calls received).                      *)
(*                                                                         *)
(* Every `await` of the source is a point where another callback may run,  *)
(* so every handler is cut into one action per await; the synchronous code *)
(* between two awaits is one atomic step. A request to the mailbox or the  *)
(* store takes effect there at some moment between its sending and the     *)
(* continuation of the callback. A query is evaluated in the step that     *)
(* sends it (its sender does nothing else in that step, so this is as      *)
(* general as any later moment); create_column takes effect in the step    *)
(* that sends it; addFlags takes effect in the step that continues after   *)
(* it (until then a search still returns the message, which is claimed).   *)
(***************************************************************************)
EXTENDS Integers, Sequences, FiniteSets, TLC

VARIABLES
  boardStore,     \* server.js:25   the object's own properties: boardId -> config
  processedUids,  \* server.js:37   Set of claimed message uids
  timers,         \* server.js:224  number of setInterval timers per board
  connecting,     \* server.js:210  startEmailListener calls awaiting Imap.connect/openBox
  cycles,         \* server.js:224  the interval callbacks started so far, each with its position
  onboard,        \* server.js:73   the /oauth/callback handlers started so far, each with its position
  boardColumns,   \* external store: the columns of each board, in the order the store lists them
  items,          \* external store: the create_item calls issued (server.js:292), in order
  mailbox,        \* the messages of the INBOX, by uid
  seen,           \* uids carrying the \Seen flag
  fate,           \* history: how far each uid got, the allowed sender read for it,
                  \*          and whether addFlags(uid, ["\\Seen"]) was sent or answered
  unseeCount,     \* history: how often a \Seen flag was cleared again
  response,       \* status of the last HTTP response sent
  alive,          \* FALSE once the node process has terminated
  input,          \* the arguments of a call of one of the pure functions
  output          \* that call's function and the value it returned

vars == <<boardStore, processedUids, timers, connecting, cycles, onboard,
          boardColumns, items, mailbox, seen, fate, unseeCount,
          response, alive, input, output>>

\* undefined / null where a string is expected: no string of characters equals it
NULL == <<"undefined">>

(***************************************************************************)
(* Bounds of the model.                                                    *)
(***************************************************************************)
MaxOnboard == 2   \* /oauth/callback requests in the full system
MaxRuns == 3      \* /oauth/callback requests in the onboarding-only system
MaxTicks == 2     \* interval callbacks started
MaxMsgs == 2      \* messages in the mailbox
MaxUnsee == 1     \* times a message reappears as unseen
MaxTokens == 4    \* pieces a text handed to the extractors is made of

Boards == {"b1", "b2"}

(***************************************************************************)
(* Strings that the code takes apart are sequences of one-character        *)
(* strings.                                                                *)
(***************************************************************************)
Upper == <<"A","B","C","D","E","F","G","H","I","J","K","L","M",
           "N","O","P","Q","R","S","T","U","V","W","X","Y","Z">>
Lower == <<"a","b","c","d","e","f","g","h","i","j","k","l","m",
           "n","o","p","q","r","s","t","u","v","w","x","y","z">>

LowerChar(c) ==
  IF \E i \in DOMAIN Upper : Upper[i] = c
  THEN Lower[CHOOSE i \in DOMAIN Upper : Upper[i] = c]
  ELSE c

\* String.prototype.toLowerCase
toLowerCase(s) == [i \in DOMAIN s |-> LowerChar(s[i])]

\* the characters \s and trim() treat as white space
IsSpace(c) == c \in {" ", "\t", "\n", "\r"}
\* the characters the regular expression's . does not match
IsNewline(c) == c \in {"\n", "\r"}

RECURSIVE TrimLeft(_)
TrimLeft(s) ==
  IF s = <<>> THEN <<>>
  ELSE IF IsSpace(Head(s)) THEN TrimLeft(Tail(s)) ELSE s

RECURSIVE TrimRight(_)
TrimRight(s) ==
  IF s = <<>> THEN <<>>
  ELSE IF IsSpace(s[Len(s)]) THEN TrimRight(SubSeq(s, 1, Len(s) - 1)) ELSE s

\* String.prototype.trim
trim(s) == TrimRight(TrimLeft(s))

\* text.split("\n"): the pieces between the line feeds, empty pieces kept
RECURSIVE SplitFrom(_, _, _)
SplitFrom(s, i, cur) ==
  IF i > Len(s) THEN <<cur>>
  ELSE IF s[i] = "\n" THEN <<cur>> \o SplitFrom(s, i + 1, <<>>)
  ELSE SplitFrom(s, i + 1, Append(cur, s[i]))

split(s) == SplitFrom(s, 1, <<>>)

\* Array.prototype.filter(Boolean) on strings: the empty string is falsy
filterBoolean(ls) == SelectSeq(ls, LAMBDA l : l # <<>>)

\* server.js:195-200 without the filter(Boolean): the first line, trimmed
extractPatientNameFirstLine(text) == trim(split(text)[1])

\* server.js:195-200
extractPatientName(text) ==
  LET ls == filterBoolean([i \in DOMAIN split(text) |-> trim(split(text)[i])])
  IN  IF ls = <<>> THEN NULL ELSE ls[1]

(***************************************************************************)
(* extractValue: new RegExp(`${label}:\\s*(.+)`, "i") matched against the  *)
(* text; the leftmost match wins, \s* is greedy and gives characters back  *)
(* until (.+) can take at least one character that is not a line end.      *)
(***************************************************************************)
\* the label followed by ":" stands at position p, letters compared without case
LabelAt(label, text, p) ==
  /\ p + Len(label) <= Len(text)
  /\ \A i \in 1..Len(label) : LowerChar(text[p + i - 1]) = LowerChar(label[i])
  /\ text[p + Len(label)] = ":"

\* length of the run of white space starting at q
RECURSIVE SpaceRun(_, _)
SpaceRun(text, q) ==
  IF q <= Len(text) /\ IsSpace(text[q]) THEN 1 + SpaceRun(text, q + 1) ELSE 0

\* the positions (.+) may start at after \s* matched from q, greedy first
CaptureStarts(text, q) ==
  {s \in q..(q + SpaceRun(text, q)) : s <= Len(text) /\ ~IsNewline(text[s])}

\* the end of the run of characters that are not line ends, starting at s
RECURSIVE LineEnd(_, _)
LineEnd(text, s) ==
  IF s + 1 <= Len(text) /\ ~IsNewline(text[s + 1]) THEN LineEnd(text, s + 1) ELSE s

Max(S) == CHOOSE x \in S : \A y \in S : y <= x
Min(S) == CHOOSE x \in S : \A y \in S : x <= y

\* the regular expression matches with the label standing at p
MatchesAt(label, text, p) ==
  /\ LabelAt(label, text, p)
  /\ CaptureStarts(text, p + Len(label) + 1) # {}

\* server.js:189-193
extractValue(label, text) ==
  LET ps == {p \in 1..Len(text) : MatchesAt(label, text, p)}
  IN  IF ps = {} THEN NULL
      ELSE LET p == Min(ps)
               s == Max(CaptureStarts(text, p + Len(label) + 1))
           IN  trim(SubSeq(text, s, LineEnd(text, s)))

(***************************************************************************)
(* Inputs of the model.                                                    *)
(***************************************************************************)
AddrA == <<"a", "@", "x">>
AddrUpper == <<"A", "@", "X">>
AddrB == <<"b", "@", "y">>
\* allowedSenderEmail values posted to /config/sender; NULL: the field is missing
ConfigAddrs == {AddrA, AddrUpper, AddrB, NULL}
\* From addresses of the messages in the mailbox
Senders == {AddrA, AddrUpper}

\* "J \nService: c": a name, and a Service line
NamedText == <<"J", " ", "\n", "S", "e", "r", "v", "i", "c", "e", ":", " ", "c">>
\* " \n": no non-blank line
BlankText == <<" ", "\n">>
Bodies == {NamedText, BlankText}

Messages ==
  {m \in [from : Senders, text : Bodies] : m.from = AddrA \/ m.text = NamedText}
\* the uids of the mailbox
Uids == DOMAIN mailbox

(***************************************************************************)
(* ensureColumns (server.js:138-183)                                       *)
(***************************************************************************)
Keys == <<"email", "phone", "service", "note">>
KeySet == {Keys[i] : i \in DOMAIN Keys}

\* server.js:139-144
required ==
  [email   |-> [title |-> "Email Address", type |-> "email"],
   phone   |-> [title |-> "Phone Number",  type |-> "phone"],
   service |-> [title |-> "Service",       type |-> "status"],
   note    |-> [title |-> "Special Note",  type |-> "long_text"]]

\* boards the app was never installed on: b1 lacks the note column, b2 the
\* phone and the note column
FreshColumns ==
  [b \in Boards |-> IF b = "b1" THEN <<"Phone Number", "Email Address", "Service">>
                    ELSE <<"Service", "Email Address">>]
\* boards an earlier run of the server has been installed on
InstalledColumns ==
  [b \in Boards |-> <<"Email Address", "Phone Number", "Service", "Special Note">>]

\* boardColumns.find(c => c.title === title): the id of the first column with
\* that title, 0 when there is none. A column's id is its position on the board.
find(cols, title) ==
  IF \E i \in DOMAIN cols : cols[i] = title
  THEN Min({i \in DOMAIN cols : cols[i] = title})
  ELSE 0

\* const map = {} (server.js:158): 0 stands for a key not set
NoColumns == [k \in KeySet |-> 0]

\* server.js:165-166 with the note key never set
FoundMapWithoutNote(cols) ==
  [k \in KeySet |-> IF k = "note" THEN 0 ELSE find(cols, required[k].title)]

\* the ids the loop takes from the columns read (server.js:165-166)
FoundMap(cols) == [k \in KeySet |-> find(cols, required[k].title)]

\* the first key at index >= i the loop has to create a column for; 0: none
NextMissing(cols, i) ==
  LET ms == {j \in i..Len(Keys) : find(cols, required[Keys[j]].title) = 0}
  IN  IF ms = {} THEN 0 ELSE Min(ms)

(***************************************************************************)
(* The poll cycle's helpers (server.js:224-264)                            *)
(***************************************************************************)
\* connection.search(["UNSEEN"]): the unseen uids, ascending
RECURSIVE SortedSeq(_)
SortedSeq(S) ==
  IF S = {} THEN <<>> ELSE <<Min(S)>> \o SortedSeq(S \ {Min(S)})

search(unseenUids) == SortedSeq(unseenUids)

\* server.js:232 with has() answering false whatever the Set holds
hasUidNever(ledger, uid) == FALSE

\* server.js:232
hasUid(ledger, uid) == uid \in ledger

\* the add of server.js:233 left out
addUidForgotten(ledger, uid) == ledger

\* server.js:233
addUid(ledger, uid) == ledger \cup {uid}

\* the index >= i of the first result the loop does not skip; 0: the loop ends
NextUnclaimed(results, i, ledger) ==
  LET js == {j \in i..Len(results) : ~hasUid(ledger, results[j])}
  IN  IF js = {} THEN 0 ELSE Min(js)

\* server.js:245 without the comparison of the addresses
senderRejectedUnconfiguredOnly(allowedSender, from) ==
  allowedSender = NULL \/ allowedSender = <<>>

\* server.js:245 with the incoming address lowercased before the comparison
senderRejectedIgnoringCase(allowedSender, from) ==
  allowedSender = NULL \/ allowedSender = <<>> \/ toLowerCase(from) # allowedSender

\* server.js:245
senderRejected(allowedSender, from) ==
  allowedSender = NULL \/ allowedSender = <<>> \/ from # allowedSender

\* server.js:251: parsed.text || htmlToText(parsed.html || ""), for a message
\* without an html part
bodyText(msg) == msg.text

\* truthiness with the empty string taken for truthy
TruthyUnlessNull(v) == v # NULL

\* JavaScript truthiness of a string or null
Truthy(v) == v # NULL /\ v # <<>>

LabelPhone == <<"P","h","o","n","e"," ","N","u","m","b","e","r">>
LabelEmail == <<"E","m","a","i","l"," ","A","d","d","r","e","s","s">>
LabelService == <<"S","e","r","v","i","c","e">>
LabelNote == <<"S","p","e","c","i","a","l"," ","N","o","t","e">>

\* server.js:274-278: the column_values object
columnValues(columns, email, phone, service, note) ==
  LET enc == [email   |-> [email |-> email, text |-> email],
              phone   |-> [phone |-> phone, countryShortName |-> "IN"],
              service |-> [label |-> service],
              note    |-> note]
      arg == [email |-> email, phone |-> phone, service |-> service, note |-> note]
      present == {j \in DOMAIN Keys : Truthy(arg[Keys[j]])}
      cols == {columns[Keys[j]] : j \in present}
  IN  [c \in cols |-> enc[Keys[Max({j \in present : columns[Keys[j]] = c})]]]

(***************************************************************************)
(* Initial state: the server has just started (server.js:25, 37).          *)
(***************************************************************************)
\* the process's own state after the module body has run
InitServer ==
  /\ boardStore = [b \in {} |-> NULL]
  /\ processedUids = {}
  /\ timers = [b \in Boards |-> 0]
  /\ connecting = [b \in Boards |-> 0]
  /\ cycles = <<>>
  /\ onboard = <<>>
  /\ items = <<>>
  /\ seen = {}
  /\ unseeCount = 0
  /\ response = 0
  /\ alive = TRUE

\* no call of a pure function is looked at on its own
NoCall ==
  /\ input = <<>>
  /\ output = [fn |-> "none"]

\* installing the app: fresh boards, an empty mailbox
InitOnboard ==
  /\ InitServer
  /\ NoCall
  /\ boardColumns = FreshColumns
  /\ mailbox = <<>>
  /\ fate = <<>>

\* polling: boards that have their columns, MaxMsgs unread messages
InitPoll ==
  /\ InitServer
  /\ NoCall
  /\ boardColumns = InstalledColumns
  /\ mailbox \in [1..MaxMsgs -> Messages]
  /\ fate = [u \in 1..MaxMsgs |-> [st |-> "unclaimed", allowed |-> NULL, ack |-> "none"]]

(***************************************************************************)
(* POST /config/sender (server.js:40-55)                                   *)
(***************************************************************************)
\* boardStore[boardId] is truthy (server.js:43, 207-208)
has(store, boardId) == boardId \in DOMAIN store

\* server.js:47-48 without the toLowerCase()
setAllowedSenderAsGiven(store, boardId, allowedSenderEmail) ==
  [store EXCEPT ![boardId].allowedSenderEmail = allowedSenderEmail]

\* server.js:47-48: the registry after the assignment
setAllowedSender(store, boardId, allowedSenderEmail) ==
  [store EXCEPT ![boardId].allowedSenderEmail = toLowerCase(allowedSenderEmail)]

ConfigSender(boardId, allowedSenderEmail) ==
  /\ alive
  /\ IF ~has(boardStore, boardId)
     THEN /\ response' = 404
          /\ UNCHANGED boardStore
     ELSE IF allowedSenderEmail = NULL
     THEN \* undefined.toLowerCase() throws: express answers 500
          /\ response' = 500
          /\ UNCHANGED boardStore
     ELSE /\ boardStore' = setAllowedSender(boardStore, boardId, allowedSenderEmail)
          /\ response' = 200
  /\ UNCHANGED <<input, output>>
  /\ UNCHANGED <<processedUids, timers, connecting, cycles, onboard, boardColumns,
                 items, mailbox, seen, fate, unseeCount, alive>>

(***************************************************************************)
(* GET /oauth/callback (server.js:73-120) with ensureColumns               *)
(* (server.js:138-183) and the synchronous start of startEmailListener     *)
(* (server.js:206-210).                                                    *)
(***************************************************************************)
\* server.js:109-112: the object stored has no allowedSenderEmail
saveConfig(store, boardId, accessToken, columns) ==
  [b \in DOMAIN store \cup {boardId} |->
     IF b = boardId
     THEN [accessToken |-> accessToken, columns |-> columns, allowedSenderEmail |-> NULL]
     ELSE store[b]]

\* server.js:113, 206-210: a registered board's listener starts connecting
startEmailListener(conn, store, boardId) ==
  IF ~has(store, boardId) THEN conn
  ELSE [conn EXCEPT ![boardId] = @ + 1]

\* server.js:75-157: token exchange and context query answered; ensureColumns
\* sends its query and the store reads the board's columns for it. The n-th
\* exchange yields token n.
OAuthCallback(boardId, limit) ==
  /\ alive
  /\ Len(onboard) < limit
  /\ onboard' = Append(onboard,
       [board |-> boardId, token |-> Len(onboard) + 1, pc |-> "existing",
        snap |-> boardColumns[boardId], map |-> FoundMap(boardColumns[boardId]), key |-> 0,
        made |-> 0, prev |-> NoColumns, ok |-> FALSE])
  /\ UNCHANGED <<input, output>>
  /\ UNCHANGED <<boardStore, processedUids, timers, connecting, cycles, boardColumns,
                 items, mailbox, seen, fate, unseeCount, response, alive>>

\* server.js:115-118: the token exchange or the context query fails
OAuthFail ==
  /\ alive
  /\ response' = 500
  /\ UNCHANGED <<input, output>>
  /\ UNCHANGED <<boardStore, processedUids, timers, connecting, cycles, onboard,
                 boardColumns, items, mailbox, seen, fate, unseeCount, alive>>

\* server.js:106-114: ensureColumns returned map for handler o
FinishOnboard(o, rec) ==
  LET b == rec.board
      store == saveConfig(boardStore, b, rec.token, rec.map)
  IN  /\ onboard' = [onboard EXCEPT ![o] =
                       [rec EXCEPT !.pc = "done", !.key = 0, !.ok = TRUE,
                                   !.prev = IF has(boardStore, b)
                                            THEN boardStore[b].columns
                                            ELSE NoColumns]]
      /\ boardStore' = store
      /\ connecting' = startEmailListener(connecting, store, b)
      /\ response' = 200

\* the loop of server.js:160-181 runs on from key index i of handler o: it
\* either sends the next create_column mutation, which the store carries out,
\* or returns the map
ContinueEnsure(o, rec, i) ==
  LET b == rec.board
      k == IF i > Len(Keys) THEN 0 ELSE NextMissing(rec.snap, i)
      cols == Append(boardColumns[b], required[Keys[k]].title)
  IN  IF k = 0
      THEN /\ FinishOnboard(o, rec)
           /\ UNCHANGED boardColumns
      ELSE /\ boardColumns' = [boardColumns EXCEPT ![b] = cols]
           /\ onboard' = [onboard EXCEPT ![o] =
                [rec EXCEPT !.pc = "create", !.key = k,
                            !.map[Keys[k]] = Len(cols), !.made = @ + 1]]
           /\ UNCHANGED <<boardStore, connecting, response>>

\* server.js:157-168: the answer to the columns query arrives
ExistingReturn(o) ==
  /\ alive
  /\ o \in DOMAIN onboard
  /\ onboard[o].pc = "existing"
  /\ ContinueEnsure(o, onboard[o], 1)
  /\ UNCHANGED <<input, output>>
  /\ UNCHANGED <<processedUids, timers, cycles, items, mailbox, seen, fate,
                 unseeCount, alive>>

\* server.js:179-182: the answer to a create_column mutation arrives
CreateColumnReturn(o) ==
  /\ alive
  /\ o \in DOMAIN onboard
  /\ onboard[o].pc = "create"
  /\ ContinueEnsure(o, onboard[o], onboard[o].key + 1)
  /\ UNCHANGED <<input, output>>
  /\ UNCHANGED <<processedUids, timers, cycles, items, mailbox, seen, fate,
                 unseeCount, alive>>

\* the catch of server.js:115-118 left out: the handler goes on to server.js:109-113
\* with the map as far as it got
EnsureColumnsThrowIgnored(o) ==
  /\ alive
  /\ o \in DOMAIN onboard
  /\ onboard[o].pc \in {"existing", "create"}
  /\ onboard' = [onboard EXCEPT ![o] = [@ EXCEPT !.pc = "done", !.key = 0]]
  /\ boardStore' = saveConfig(boardStore, onboard[o].board, onboard[o].token, onboard[o].map)
  /\ connecting' = startEmailListener(connecting, boardStore', onboard[o].board)
  /\ response' = 500
  /\ UNCHANGED <<input, output>>
  /\ UNCHANGED <<processedUids, timers, cycles, boardColumns,
                 items, mailbox, seen, fate, unseeCount, alive>>

\* server.js:115-118: the store call ensureColumns awaits fails (the request
\* fails, or its answer has no data): the handler answers 500
EnsureColumnsThrow(o) ==
  /\ alive
  /\ o \in DOMAIN onboard
  /\ onboard[o].pc \in {"existing", "create"}
  /\ onboard' = [onboard EXCEPT ![o] = [@ EXCEPT !.pc = "done", !.key = 0]]
  /\ response' = 500
  /\ UNCHANGED <<input, output>>
  /\ UNCHANGED <<boardStore, processedUids, timers, connecting, cycles, boardColumns,
                 items, mailbox, seen, fate, unseeCount, alive>>

\* server.js:210-224: Imap.connect and openBox done, setInterval arms a timer
ListenerConnect(boardId) ==
  /\ alive
  /\ connecting[boardId] > 0
  /\ connecting' = [connecting EXCEPT ![boardId] = @ - 1]
  /\ timers' = [timers EXCEPT ![boardId] = @ + 1]
  /\ UNCHANGED <<input, output>>
  /\ UNCHANGED <<boardStore, processedUids, cycles, onboard, boardColumns, items,
                 mailbox, seen, fate, unseeCount, response, alive>>

(***************************************************************************)
(* The interval callback (server.js:224-264). A cycle is                   *)
(*   [board, pc, results, i, failed, claimed]: results[i] is the message   *)
(* at hand, claimed the history of the uids the cycle added to the ledger. *)
(***************************************************************************)
\* server.js:224-228: a timer of the board fires; the callback sends the
\* search and the mailbox evaluates it
Tick(boardId) ==
  /\ alive
  /\ timers[boardId] > 0
  /\ Len(cycles) < MaxTicks
  /\ cycles' = Append(cycles,
       [board |-> boardId, pc |-> "search", results |-> search(Uids \ seen),
        i |-> 0, failed |-> FALSE, claimed |-> {}])
  /\ UNCHANGED <<input, output>>
  /\ UNCHANGED <<boardStore, processedUids, timers, connecting, onboard, boardColumns,
                 items, mailbox, seen, fate, unseeCount, response, alive>>

\* server.js:230-235: the for loop runs on from index i: it skips the claimed
\* uids, claims the next one and sends it to simpleParser, or the callback ends.
\* f is the history so far.
ContinueLoop(c, rec, i, f) ==
  LET j == NextUnclaimed(rec.results, i, processedUids)
  IN  IF j = 0
      THEN /\ cycles' = [cycles EXCEPT ![c] = [rec EXCEPT !.pc = "done", !.i = 0]]
           /\ processedUids' = processedUids
           /\ fate' = f
      ELSE /\ cycles' = [cycles EXCEPT ![c] =
                [rec EXCEPT !.pc = "parse", !.i = j, !.claimed = @ \cup {rec.results[j]}]]
           /\ processedUids' = addUid(processedUids, rec.results[j])
           /\ fate' = [f EXCEPT ![rec.results[j]].st = "claimed"]

\* the callback's promise rejects and nothing handles the rejection: the cycle
\* is over. What node does with an unhandled rejection depends on the build:
\* --unhandled-rejections=warn (the default up to node 14) logs a warning and
\* goes on, =throw (the default since node 15) terminates the process.
Reject(c) ==
  /\ cycles' = [cycles EXCEPT ![c] = [@ EXCEPT !.pc = "done", !.i = 0, !.failed = TRUE]]
  /\ alive' \in BOOLEAN

\* server.js:225-235: the search's answer arrives
SearchReturn(c) ==
  /\ alive
  /\ c \in DOMAIN cycles
  /\ cycles[c].pc = "search"
  /\ ContinueLoop(c, cycles[c], 1, fate)
  /\ UNCHANGED <<input, output>>
  /\ UNCHANGED <<boardStore, timers, connecting, onboard, boardColumns, items, mailbox,
                 seen, unseeCount, response, alive>>

\* server.js:271-292: createItem builds the values and sends the mutation
createItem(store, boardId, uid, name, text, ledger) ==
  [board |-> boardId, uid |-> uid, name |-> name,
   columns |-> store[boardId].columns,
   values |-> columnValues(store[boardId].columns,
                           extractValue(LabelEmail, text),
                           extractValue(LabelPhone, text),
                           extractValue(LabelService, text),
                           extractValue(LabelNote, text)),
   claimed |-> hasUid(ledger, uid)]

\* server.js:235-261: simpleParser answers; sender filter, name, createItem
ParseReturn(c) ==
  /\ alive
  /\ c \in DOMAIN cycles
  /\ cycles[c].pc = "parse"
  /\ LET rec == cycles[c]
         b == rec.board
         uid == rec.results[rec.i]
         from == mailbox[uid].from
         allowedSender == boardStore[b].allowedSenderEmail
         text == bodyText(mailbox[uid])
         name == extractPatientName(text)
         f == [fate EXCEPT ![uid].allowed = allowedSender]
     IN  IF senderRejected(allowedSender, from)
         THEN /\ cycles' = [cycles EXCEPT ![c].pc = "ackReject"]
              /\ fate' = [f EXCEPT ![uid].st = "rejected", ![uid].ack = "sent"]
              /\ UNCHANGED <<processedUids, items>>
         ELSE IF name = NULL
         THEN /\ ContinueLoop(c, rec, rec.i + 1, [f EXCEPT ![uid].st = "noname"])
              /\ UNCHANGED items
         ELSE /\ cycles' = [cycles EXCEPT ![c].pc = "create"]
              /\ fate' = [f EXCEPT ![uid].st = "creating"]
              /\ items' = Append(items, createItem(boardStore, b, uid, name, text, processedUids))
              /\ UNCHANGED processedUids
  /\ UNCHANGED <<input, output>>
  /\ UNCHANGED <<boardStore, timers, connecting, onboard, boardColumns, mailbox, seen,
                 unseeCount, response, alive>>

\* server.js:235: simpleParser throws
ParseThrow(c) ==
  /\ alive
  /\ c \in DOMAIN cycles
  /\ cycles[c].pc = "parse"
  /\ fate' = [fate EXCEPT ![cycles[c].results[cycles[c].i]].st = "parseThrew"]
  /\ Reject(c)
  /\ UNCHANGED <<input, output>>
  /\ UNCHANGED <<boardStore, processedUids, timers, connecting, onboard, boardColumns,
                 items, mailbox, seen, unseeCount, response>>

\* server.js:292-293, 261-262: the store answers the mutation with JSON, either
\* the new item ("ok") or an errors object without data ("apiError"); createItem
\* logs res.data and returns, and the callback sends addFlags
CreateItemReturn(c, outcome) ==
  /\ alive
  /\ c \in DOMAIN cycles
  /\ cycles[c].pc = "create"
  /\ LET uid == cycles[c].results[cycles[c].i]
     IN  fate' = [fate EXCEPT ![uid].st =
                      IF outcome = "ok" THEN "createdOk" ELSE "createdApiError",
                    ![uid].ack = "sent"]
  /\ cycles' = [cycles EXCEPT ![c].pc = "ackCreate"]
  /\ UNCHANGED <<input, output>>
  /\ UNCHANGED <<boardStore, processedUids, timers, connecting, onboard, boardColumns,
                 items, mailbox, seen, unseeCount, response, alive>>

\* server.js:127-135, 292: fetch rejects or the answer is not JSON: createItem throws
CreateItemThrow(c) ==
  /\ alive
  /\ c \in DOMAIN cycles
  /\ cycles[c].pc = "create"
  /\ fate' = [fate EXCEPT ![cycles[c].results[cycles[c].i]].st = "createThrew"]
  /\ Reject(c)
  /\ UNCHANGED <<input, output>>
  /\ UNCHANGED <<boardStore, processedUids, timers, connecting, onboard, boardColumns,
                 items, mailbox, seen, unseeCount, response>>

\* server.js:247-248, 262: the mailbox has set \Seen; the loop goes on
AddFlagsReturn(c) ==
  /\ alive
  /\ c \in DOMAIN cycles
  /\ cycles[c].pc \in {"ackReject", "ackCreate"}
  /\ seen' = seen \cup {cycles[c].results[cycles[c].i]}
  /\ ContinueLoop(c, cycles[c], cycles[c].i + 1,
                  [fate EXCEPT ![cycles[c].results[cycles[c].i]].ack = "done"])
  /\ UNCHANGED <<input, output>>
  /\ UNCHANGED <<boardStore, timers, connecting, onboard, boardColumns, items, mailbox,
                 unseeCount, response, alive>>

(***************************************************************************)
(* The mailbox's side: a message carrying \Seen shows up as unseen again   *)
(* (at-least-once visibility, or the user marks it unread).                *)
(***************************************************************************)
Unsee(uid) ==
  /\ alive
  /\ uid \in seen
  /\ unseeCount < MaxUnsee
  /\ seen' = seen \ {uid}
  /\ unseeCount' = unseeCount + 1
  /\ UNCHANGED <<input, output>>
  /\ UNCHANGED <<boardStore, processedUids, timers, connecting, cycles, onboard,
                 boardColumns, items, mailbox, fate, response, alive>>

\* the configuration requests, with the onboarding that registers the boards
NextConfig ==
  \/ \E b \in Boards, a \in ConfigAddrs : ConfigSender(b, a)
  \/ \E b \in Boards : OAuthCallback(b, MaxOnboard)
  \/ \E o \in 1..MaxOnboard : ExistingReturn(o)
  \/ \E o \in 1..MaxOnboard : CreateColumnReturn(o)

SpecConfig == InitOnboard /\ [][NextConfig]_vars

\* the onboarding requests alone
NextOnboard ==
  \/ \E b \in Boards : OAuthCallback(b, MaxRuns)
  \/ OAuthFail
  \/ \E o \in 1..MaxRuns : ExistingReturn(o)
  \/ \E o \in 1..MaxRuns : CreateColumnReturn(o)
  \/ \E o \in 1..MaxRuns : EnsureColumnsThrow(o)
  \/ \E b \in Boards : ListenerConnect(b)

SpecOnboard == InitOnboard /\ [][NextOnboard]_vars

\* onboarding of installed boards, configuration and the pollers
NextPoll ==
  \/ \E b \in DOMAIN boardStore : ConfigSender(b, AddrUpper)
  \/ \E b \in Boards : OAuthCallback(b, MaxOnboard)
  \/ \E o \in 1..MaxOnboard : ExistingReturn(o)
  \/ \E b \in Boards : ListenerConnect(b)
  \/ \E b \in Boards : Tick(b)
  \/ \E c \in 1..MaxTicks : SearchReturn(c)
  \/ \E c \in 1..MaxTicks : ParseReturn(c)
  \/ \E c \in 1..MaxTicks : ParseThrow(c)
  \/ \E c \in 1..MaxTicks, r \in {"ok", "apiError"} : CreateItemReturn(c, r)
  \/ \E c \in 1..MaxTicks : CreateItemThrow(c)
  \/ \E c \in 1..MaxTicks : AddFlagsReturn(c)
  \/ \E u \in Uids : Unsee(u)

SpecPoll == InitPoll /\ [][NextPoll]_vars

\* installing on fresh boards with unread messages in the INBOX
InitInstall ==
  /\ InitServer
  /\ NoCall
  /\ boardColumns = FreshColumns
  /\ mailbox \in [1..MaxMsgs -> Messages]
  /\ fate = [u \in 1..MaxMsgs |-> [st |-> "unclaimed", allowed |-> NULL, ack |-> "none"]]

\* onboarding of fresh boards with its failures, configuration and the pollers
NextInstall ==
  \/ NextPoll
  \/ \E o \in 1..MaxOnboard : CreateColumnReturn(o)
  \/ \E o \in 1..MaxOnboard : EnsureColumnsThrow(o)

SpecInstall == InitInstall /\ [][NextInstall]_vars

(***************************************************************************)
(* The pollers running on without end, with calls that do not fail.        *)
(***************************************************************************)
\* server.js:224-228: a timer of the board fires once MaxTicks callbacks have
\* been started: the record of callback c, which is over, makes room for it
TickAgain(boardId, c) ==
  /\ alive
  /\ timers[boardId] > 0
  /\ Len(cycles) = MaxTicks
  /\ c \in DOMAIN cycles
  /\ cycles[c].pc = "done"
  /\ cycles' = [cycles EXCEPT ![c] =
       [board |-> boardId, pc |-> "search", results |-> search(Uids \ seen),
        i |-> 0, failed |-> FALSE, claimed |-> {}]]
  /\ UNCHANGED <<input, output>>
  /\ UNCHANGED <<boardStore, processedUids, timers, connecting, onboard, boardColumns,
                 items, mailbox, seen, fate, unseeCount, response, alive>>

\* setInterval fires a board's timer every 15 s
TimerFires(boardId) ==
  Tick(boardId) \/ \E c \in 1..MaxTicks : TickAgain(boardId, c)

NextFair ==
  \/ \E b \in DOMAIN boardStore : ConfigSender(b, AddrUpper)
  \/ \E b \in Boards : OAuthCallback(b, MaxOnboard)
  \/ \E o \in 1..MaxOnboard : ExistingReturn(o)
  \/ \E b \in Boards : ListenerConnect(b)
  \/ \E b \in Boards : Tick(b)
  \/ \E b \in Boards, c \in 1..MaxTicks : TickAgain(b, c)
  \/ \E c \in 1..MaxTicks : SearchReturn(c)
  \/ \E c \in 1..MaxTicks : ParseReturn(c)
  \/ \E c \in 1..MaxTicks : CreateItemReturn(c, "ok")
  \/ \E c \in 1..MaxTicks : AddFlagsReturn(c)

\* callback c awaits simpleParser: ParseReturn(c) is enabled
ParsePending(c) == alive /\ c \in DOMAIN cycles /\ cycles[c].pc = "parse"

\* WF_vars(ParseReturn(c)), with ENABLED <<ParseReturn(c)>>_vars written as the
\* state predicate it amounts to
ParseAnswered(c) == []<>(~ParsePending(c)) \/ []<><<ParseReturn(c)>>_vars

\* the timers keep firing, and every call sent is answered
Fairness ==
  /\ \A b \in Boards : SF_vars(TimerFires(b))
  /\ \A b \in Boards : WF_vars(ListenerConnect(b))
  /\ \A c \in 1..MaxTicks :
       /\ WF_vars(SearchReturn(c))
       /\ ParseAnswered(c)
       /\ WF_vars(CreateItemReturn(c, "ok"))
       /\ WF_vars(AddFlagsReturn(c))

\* the unread messages of the INBOX all come from "a@x" and carry a name
InitFair ==
  /\ InitPoll
  /\ \A u \in 1..MaxMsgs : mailbox[u] = [from |-> AddrA, text |-> NamedText]

SpecFair == InitFair /\ [][NextFair]_vars /\ Fairness

(***************************************************************************)
(* createItem's column_values (server.js:271-278) on its own: the four     *)
(* extracted values are the input, the object built is the output.         *)
(***************************************************************************)
\* what extractValue returns for a label whose line holds white space only
\* after the colon, at the end of the text: the empty string
EmptyValue == extractValue(LabelNote, LabelNote \o <<":", " ", "\n">>)

\* the values extractValue hands to createItem: null, "" and a value
FieldValues == {NULL, EmptyValue, <<"v">>}

\* everything but the call at hand is as after the start of the server
InitCall ==
  /\ InitServer
  /\ boardColumns = InstalledColumns
  /\ mailbox = <<>>
  /\ fate = <<>>
  /\ output = [fn |-> "none"]

\* cfg.columns of a board that has its four columns
CfgColumns == FoundMap(InstalledColumns["b1"])

InitCreateItem ==
  /\ InitCall
  /\ input \in [KeySet -> FieldValues]

\* server.js:274-278
CallColumnValues ==
  /\ output.fn = "none"
  /\ output' = [fn |-> "createItem",
                value |-> columnValues(CfgColumns, input.email, input.phone,
                                       input.service, input.note)]
  /\ UNCHANGED <<boardStore, processedUids, timers, connecting, cycles, onboard,
                 boardColumns, items, mailbox, seen, fate, unseeCount, response,
                 alive, input>>

NextCreateItem == CallColumnValues

SpecCreateItem == InitCreateItem /\ [][NextCreateItem]_vars

(***************************************************************************)
(* extractValue and extractPatientName (server.js:189-200) on their own:   *)
(* the text is the input, the function called and its result the output.   *)
(***************************************************************************)
ServiceOddCase == <<"s", "E", "R", "V", "I", "C", "E">>

\* the pieces the texts are made of
Tokens ==
  {LabelService, ServiceOddCase, LabelNote,
   <<":">>, <<" ">>, <<"\n">>, <<"\r">>, <<"x">>}

\* the texts made of up to n pieces
RECURSIVE TextsOf(_)
TextsOf(n) ==
  IF n = 0 THEN {<<>>}
  ELSE LET shorter == TextsOf(n - 1)
       IN  shorter \cup {t \o k : t \in shorter, k \in Tokens}

\* the labels of server.js:256-259
Labels == {LabelPhone, LabelEmail, LabelService, LabelNote}

InitExtract ==
  /\ InitCall
  /\ input \in TextsOf(MaxTokens)

\* server.js:256-259: extractValue(label, text)
CallExtractValue(label) ==
  /\ output.fn = "none"
  /\ output' = [fn |-> "extractValue", label |-> label,
                value |-> extractValue(label, input)]
  /\ UNCHANGED <<boardStore, processedUids, timers, connecting, cycles, onboard,
                 boardColumns, items, mailbox, seen, fate, unseeCount, response,
                 alive, input>>

\* server.js:253: extractPatientName(text)
CallExtractPatientName ==
  /\ output.fn = "none"
  /\ output' = [fn |-> "extractPatientName", value |-> extractPatientName(input)]
  /\ UNCHANGED <<boardStore, processedUids, timers, connecting, cycles, onboard,
                 boardColumns, items, mailbox, seen, fate, unseeCount, response,
                 alive, input>>

NextExtract ==
  \/ \E label \in Labels : CallExtractValue(label)
  \/ CallExtractPatientName

SpecExtract == InitExtract /\ [][NextExtract]_vars

(***************************************************************************)
(* Properties                                                              *)
(***************************************************************************)
\* the create_item calls issued for message u
ItemsOf(u) == {i \in DOMAIN items : items[i].uid = u}

\* message u has reached the sender filter of server.js:245
Filtered(u) == fate[u].st \notin {"unclaimed", "claimed", "parseThrew"}

\* message u passed the sender filter: its sender is the allowed sender read for it
PassedFilter(u) == Filtered(u) /\ fate[u].allowed = mailbox[u].from

\* the uids an addFlags call was issued for
acks == {u \in Uids : fate[u].ack # "none"}

\* an addFlags call for u is in flight
AckPending(u) ==
  \E c \in DOMAIN cycles :
    cycles[c].pc \in {"ackReject", "ackCreate"} /\ cycles[c].results[cycles[c].i] = u

\* the uids a cycle's search returned
ResultsOf(c) == {cycles[c].results[j] : j \in DOMAIN cycles[c].results}

\* C1: createItem is issued at most once for a message uid, and only at a
\* moment when the uid is in processedUids, whatever cycles of whatever boards
\* overlap and however often the message shows up as unseen again.
C1_CreateOncePerClaimedUid ==
  /\ \A u \in Uids : Cardinality(ItemsOf(u)) <= 1
  /\ \A i \in DOMAIN items : items[i].claimed /\ items[i].uid \in processedUids

\* C1 witness: an item exists for a message that reappeared as unseen and was
\* returned to a finished cycle of another board, which skipped it.
C1_Witness ==
  \E i \in DOMAIN items, c \in DOMAIN cycles :
    /\ cycles[c].board # items[i].board
    /\ cycles[c].pc = "done"
    /\ items[i].uid \in ResultsOf(c)
    /\ unseeCount > 0

\* C2: a failure on one message does not abort the cycle: when the cycle is
\* over in a process that lives on, every message its search returned has
\* been claimed and handled.
C2_FailureContainedToMessage ==
  \A c \in DOMAIN cycles :
    (alive /\ cycles[c].pc = "done") => \A u \in ResultsOf(c) : u \in processedUids

\* C3: at most one poll cycle of a board is in flight.
C3_OneCycleInFlightPerTenant ==
  \A c1, c2 \in DOMAIN cycles :
    (/\ cycles[c1].board = cycles[c2].board
     /\ cycles[c1].pc # "done"
     /\ cycles[c2].pc # "done") => c1 = c2

\* C4: a registered board has exactly one polling timer (armed, or being armed
\* by its startEmailListener call), however often it is onboarded.
C4_OneTimerPerTenant ==
  \A b \in DOMAIN boardStore : timers[b] + connecting[b] = 1

\* C5: a message from the allowed sender whose body has no non-blank line
\* causes no createItem and no error, and a mark-seen call is issued for it.
C5_NoNameSkippedAndMarkedSeen ==
  \A u \in Uids :
    (PassedFilter(u) /\ extractPatientName(bodyText(mailbox[u])) = NULL) =>
      /\ ItemsOf(u) = {}
      /\ fate[u].st # "createThrew"
      /\ u \in acks

\* C6: a message filtered while its board has no allowed sender, or whose
\* sender differs from the allowed sender read at the filter, never gets a
\* createItem call, and it is marked seen: the addFlags call is issued and,
\* once it is answered, the message carries \Seen until it is made unseen again.
C6_RejectedSenderNeverCreated ==
  \A u \in Uids :
    (Filtered(u) /\ (fate[u].allowed = NULL \/ mailbox[u].from # fate[u].allowed)) =>
      /\ ItemsOf(u) = {}
      /\ \/ fate[u].ack = "sent" /\ AckPending(u)
         \/ fate[u].ack = "done" /\ (u \in seen \/ unseeCount > 0)

\* C6 witness: a message from a sender other than the configured one has been
\* filtered and carries \Seen, and another was filtered with no sender configured.
C6_Witness ==
  /\ \E u \in Uids :
       /\ Filtered(u)
       /\ fate[u].allowed # NULL
       /\ mailbox[u].from # fate[u].allowed
       /\ u \in seen
  /\ \E u \in Uids : Filtered(u) /\ fate[u].allowed = NULL /\ u \in seen

\* C7: for a message that passed the filter and has a name, the mark-seen
\* call is issued only after the creation attempt has completed, and not when
\* that attempt failed.
C7_AckOnlyAfterSuccessfulCreate ==
  \A u \in Uids :
    (/\ PassedFilter(u)
     /\ extractPatientName(bodyText(mailbox[u])) # NULL
     /\ u \in acks) => fate[u].st = "createdOk"

\* C8: a failure while processing a message never stops the polling loop: the
\* process lives on and the board's timer stays armed.
C8_LoopSurvivesFailure ==
  \A c \in DOMAIN cycles :
    cycles[c].failed => alive /\ timers[cycles[c].board] > 0

\* what POST /config/sender has to store for each address
ExpectedStored(a) == IF a = AddrB THEN AddrB ELSE AddrA

AllFound(cols) == \A k \in KeySet : find(cols, required[k].title) # 0

\* C10: an onboarding run that finds all four columns creates none and returns
\* the mapping the previous run stored for the board.
C10_RerunSameMapping ==
  \A o \in DOMAIN onboard :
    (onboard[o].pc = "done" /\ onboard[o].ok /\ AllFound(onboard[o].snap)) =>
      /\ onboard[o].made = 0
      /\ onboard[o].prev # NoColumns => onboard[o].map = onboard[o].prev

\* the onboarding runs of board b that got through ensureColumns
OkRuns(b) == {o \in DOMAIN onboard : onboard[o].board = b /\ onboard[o].ok}

\* the onboarding runs in which a call awaited by ensureColumns failed
FailedRuns == {o \in DOMAIN onboard : onboard[o].pc = "done" /\ ~onboard[o].ok}

\* C11: an onboarding run whose column lookup or column creation fails writes
\* nothing into the registry and starts no poller: every registry entry holds
\* the token of a run that got through ensureColumns, a board none of whose
\* runs got through is not registered, and a board has as many listeners as
\* runs that got through.
C11_FailedOnboardingNoWrite ==
  \A b \in Boards :
    /\ b \in DOMAIN boardStore <=> OkRuns(b) # {}
    /\ b \in DOMAIN boardStore =>
         \E o \in OkRuns(b) : onboard[o].token = boardStore[b].accessToken
    /\ timers[b] + connecting[b] = Cardinality(OkRuns(b))

\* C11 witness: a run failed after it had created a column, its board is not
\* registered and has no listener, and another run has registered its board.
C11_Witness ==
  /\ \E o \in FailedRuns :
       /\ onboard[o].made > 0
       /\ onboard[o].board \notin DOMAIN boardStore
       /\ timers[onboard[o].board] + connecting[onboard[o].board] = 0
  /\ DOMAIN boardStore # {}

\* a mapping with an id under each of email, phone, service and note
FullMapping(columns) ==
  DOMAIN columns = KeySet /\ \A k \in KeySet : columns[k] # 0

\* C12: every registered board's mapping has an id under each of the four
\* keys, and every create_item call was issued for a registered board with
\* such a mapping at hand.
C12_RegisteredMappingComplete ==
  /\ \A b \in DOMAIN boardStore : FullMapping(boardStore[b].columns)
  /\ \A i \in DOMAIN items :
       items[i].board \in DOMAIN boardStore /\ FullMapping(items[i].columns)

\* C12 witness: an item was created with a mapping that holds a column the
\* onboarding had to create, and a value went into a mapped column.
C12_Witness ==
  \E i \in DOMAIN items :
    /\ \E k \in KeySet : items[i].columns[k] > Len(FreshColumns[items[i].board])
    /\ DOMAIN items[i].values # {}

\* cycle c runs its for loop in this step: from the search's answer, after a
\* message without a name or after an addFlags answer, up to the next uid it
\* claims or to the end of the results
LoopStep(c) ==
  /\ cycles[c].pc # "done"
  /\ cycles'[c] # cycles[c]
  /\ cycles'[c].pc \in {"parse", "done"}
  /\ ~cycles'[c].failed

\* the uids the loop of cycle c passes over in this step without claiming them
SkippedInStep(c) ==
  LET last == IF cycles'[c].pc = "done" THEN Len(cycles[c].results)
              ELSE cycles'[c].i - 1
  IN  {cycles[c].results[j] : j \in (cycles[c].i + 1)..last}

\* the uids cycle c claims in this step
ClaimedInStep(c) ==
  cycles'[c].claimed \ (IF c \in DOMAIN cycles THEN cycles[c].claimed ELSE {})

\* C13: has() and add() on processedUids act as one atomic check-and-set: a
\* cycle claims a uid only when the ledger does not hold it, and the claim puts
\* it there; a cycle that meets a uid the ledger holds passes over it and
\* leaves the ledger as it is; no uid is claimed by two cycles; nothing ever
\* leaves the ledger, and nothing enters it but by a claim.
C13_AtomicClaim ==
  /\ [](\A c1, c2 \in DOMAIN cycles :
          c1 # c2 => cycles[c1].claimed \cap cycles[c2].claimed = {})
  /\ [][/\ processedUids \subseteq processedUids'
        /\ processedUids' \ processedUids =
             UNION {ClaimedInStep(c) : c \in DOMAIN cycles'}
        /\ \A c \in DOMAIN cycles' :
             ClaimedInStep(c) \cap processedUids = {}
        /\ \A c \in DOMAIN cycles :
             LoopStep(c) =>
               /\ SkippedInStep(c) \subseteq processedUids
               /\ SkippedInStep(c) \cap ClaimedInStep(c) = {}
               /\ Cardinality(ClaimedInStep(c)) <= 1
               /\ cycles'[c].pc = "parse" =>
                    ClaimedInStep(c) = {cycles'[c].results[cycles'[c].i]}]_vars

\* C13 witness: two cycles of different boards received the same uid from
\* their searches; one claimed it, the other finished without claiming it.
C13_Witness ==
  \E c1, c2 \in DOMAIN cycles, u \in Uids :
    /\ cycles[c1].board # cycles[c2].board
    /\ u \in ResultsOf(c1) \cap ResultsOf(c2)
    /\ u \in cycles[c1].claimed
    /\ cycles[c2].pc = "done" /\ ~cycles[c2].failed
    /\ u \notin cycles[c2].claimed

\* C14: the sender filter lets a message through exactly when its From
\* address, taken as it stands, equals the allowed sender read for it, which
\* is stored in lower case; a message from "A@X" filtered while "a@x" is
\* allowed is rejected: no create_item call, and addFlags is sent for it.
C14_SenderComparedCaseSensitively ==
  \A u \in Uids :
    Filtered(u) =>
      /\ fate[u].st # "rejected" <=> mailbox[u].from = fate[u].allowed
      /\ fate[u].allowed # NULL => toLowerCase(fate[u].allowed) = fate[u].allowed
      /\ (fate[u].allowed = AddrA /\ mailbox[u].from = AddrUpper) =>
           /\ fate[u].st = "rejected"
           /\ ItemsOf(u) = {}
           /\ fate[u].ack # "none"

\* C14 witness: with "a@x" allowed, a message from "A@X" was rejected and
\* carries \Seen, and a message from "a@x" got its create_item call.
C14_Witness ==
  /\ \E u \in Uids :
       /\ fate[u].allowed = AddrA
       /\ mailbox[u].from = AddrUpper
       /\ fate[u].st = "rejected"
       /\ u \in seen
  /\ \E u \in Uids :
       /\ fate[u].allowed = AddrA
       /\ mailbox[u].from = AddrA
       /\ ItemsOf(u) # {}

\* the entry v built for field k carries null as its value
EntryNull(k, v) ==
  IF k = "note" THEN v = NULL
  ELSE IF k = "email" THEN v.email = NULL
  ELSE IF k = "phone" THEN v.phone = NULL
  ELSE v.label = NULL

\* C15 as stated: column_values has an entry under a field's column exactly
\* when the extracted value of the field is not null, and no entry is null.
C15_EntryIffNotNull ==
  output.fn = "createItem" =>
    \A k \in KeySet :
      /\ CfgColumns[k] \in DOMAIN output.value <=> input[k] # NULL
      /\ CfgColumns[k] \in DOMAIN output.value =>
           ~EntryNull(k, output.value[CfgColumns[k]])

\* C15 amended: column_values has an entry under a field's column exactly
\* when the extracted value of the field is neither null nor the empty
\* string; no entry is null or empty, and there are no other entries.
C15_EntryIffNonEmpty ==
  output.fn = "createItem" =>
    /\ \A k \in KeySet :
         /\ CfgColumns[k] \in DOMAIN output.value <=> input[k] \notin {NULL, <<>>}
         /\ CfgColumns[k] \in DOMAIN output.value =>
              ~EntryNull(k, output.value[CfgColumns[k]])
    /\ DOMAIN output.value \subseteq {CfgColumns[k] : k \in KeySet}

\* C15 witness: column_values was built from a null, an empty and a non-empty
\* value and holds an entry.
C15_Witness ==
  /\ output.fn = "createItem"
  /\ \E k1, k2, k3 \in KeySet :
       /\ input[k1] = NULL
       /\ input[k2] = <<>>
       /\ input[k3] = <<"v">>
       /\ CfgColumns[k3] \in DOMAIN output.value

\* the lines of a text: the pieces between its line feeds
LinesOf(text) == {split(text)[i] : i \in DOMAIN split(text)}

\* the trimmed remainders of the lines of the text that hold the label, in any
\* letter case, followed by a colon
Remainders(label, text) ==
  {trim(SubSeq(l, p + Len(label) + 1, Len(l))) :
     <<l, p>> \in {<<l, p>> \in LinesOf(text) \X (1..(Len(text) + 1)) :
                     LabelAt(label, l, p)}}

\* C16, read in the way most favourable to the code (the label may stand
\* anywhere in its line, and a line with nothing after the colon may count as
\* no line): extractValue returns the trimmed remainder of a line of the text
\* holding "<Label>:", null when the text has no such line, and so nothing
\* that depends on the lines of the other labels.
C16_ExtractValueRemainderOfLine ==
  output.fn = "extractValue" =>
    LET rs == Remainders(output.label, input)
    IN  IF rs = {} THEN output.value = NULL
        ELSE \/ output.value \in rs
             \/ output.value = NULL /\ <<>> \in rs

\* the positions of the characters of the text that are not white space
InkPositions(text) == {p \in 1..Len(text) : ~IsSpace(text[p])}

\* the line around position p, from after the line feed before p up to the
\* line feed after it
LineAround(text, p) ==
  LET from == 1 + Max({0} \cup {q \in 1..p : text[q] = "\n"})
      to == Min({Len(text) + 1} \cup {q \in p..Len(text) : text[q] = "\n"}) - 1
  IN  SubSeq(text, from, to)

\* C17: for a text with a non-blank line extractPatientName returns the first
\* such line without the white space around it; for a text that is empty or
\* has blank lines only it returns nothing.
C17_FirstNonBlankLineTrimmed ==
  output.fn = "extractPatientName" =>
    IF InkPositions(input) = {}
    THEN output.value = NULL
    ELSE output.value = trim(LineAround(input, Min(InkPositions(input))))

\* C17 witness: the name was taken from a line that follows a blank line and
\* had white space around it; the text goes on after that line.
C17_Witness ==
  /\ output.fn = "extractPatientName"
  /\ output.value # NULL
  /\ \E i \in DOMAIN split(input) :
       /\ i > 1 /\ i < Len(split(input))
       /\ \A j \in 1..(i - 1) : trim(split(input)[j]) = <<>>
       /\ split(input)[i] # output.value
       /\ trim(split(input)[i]) = output.value

\* the columns of board b whose title is that of key k
ColumnsTitled(b, k) ==
  {i \in DOMAIN boardColumns[b] : boardColumns[b][i] = required[k].title}

\* C18: however the onboarding runs of a board interleave, the board holds at
\* most one column under each of the four required titles.
C18_OneColumnPerTitle ==
  \A b \in Boards, k \in KeySet : Cardinality(ColumnsTitled(b, k)) <= 1

\* C20: a board's allowed sender, once set, changes only in a step of
\* POST /config/sender for that board; in particular an /oauth/callback for the
\* board leaves it as it is.
C20_AllowedSenderChangedOnlyByConfig ==
  [][\A b \in DOMAIN boardStore :
       boardStore[b].allowedSenderEmail # NULL =>
         \/ /\ b \in DOMAIN boardStore'
            /\ boardStore'[b].allowedSenderEmail = boardStore[b].allowedSenderEmail
         \/ \E a \in ConfigAddrs : ConfigSender(b, a)]_vars

\* board b is registered with the sender of message u as its allowed sender,
\* and the body of u yields a name
MatchesTenant(u, b) ==
  /\ b \in DOMAIN boardStore
  /\ boardStore[b].allowedSenderEmail = mailbox[u].from
  /\ extractPatientName(bodyText(mailbox[u])) # NULL

\* C19: with timers that keep firing and calls that are answered, a message
\* that is unseen, and claimed by no poller yet, while a polling board's
\* allowed sender is its sender, and whose body yields a name, leads to a
\* create_item call for that board (unless the board's allowed sender is
\* changed in the meantime), whatever the other boards polling the same
\* mailbox do.
C19_MatchingMessageLeadsToItem ==
  \A u \in 1..MaxMsgs, b \in Boards :
    (u \notin seen /\ u \notin processedUids /\ MatchesTenant(u, b) /\ timers[b] > 0)
      ~> (\/ \E i \in DOMAIN items : items[i].uid = u /\ items[i].board = b
          \/ ~MatchesTenant(u, b))

====
